---- MODULE Spec2Model ----
(***************************************************************************)
(* The item-access layer of the "my-lost" API: the create route with its   *)
(* daily rate limit, the cached list read, the process-local TTL cache and *)
(* the read-side filter normalisation, the reads by id and by distance.    *)
(*                                                                         *)
(* Python strings are sequences of one-character strings, so that lower(), *)
(* strip() and startswith() are computed character by character.           *)
(* Optional[T] is a sequence of length 0 (None) or 1 (the value).          *)
(* Coordinates and distances are integers on a grid.                       *)
(***************************************************************************)
EXTENDS Integers, Sequences, FiniteSets, TLC

VARIABLES
    connected,          \* mongodb._is_connected and mongodb.database is not None
    storeUp,            \* environment: the document store answers calls
    now,                \* wall clock, in seconds since the first midnight
    max_posts_per_day,  \* RateLimitService.max_posts_per_day
    items,              \* the lost_items collection, in insertion order
    rateRecords,        \* the rate-limit collection, in insertion order
    cache,              \* CacheService.cache: the unexpired entries, by key
    pc,                 \* per request slot: the step the handler is at
    req,                \* per request slot: the handler's locals and response
    last,               \* the response sent last
    accepted,           \* the 201 responses sent so far: who, when, which item,
                        \* and the count its rate check had read (-1: none)
    denied,             \* the 429 responses sent so far: who, when
    arg,                \* input of the function under study (function specs)
    out                 \* its stages' outputs (function specs)

vars == <<connected, storeUp, now, max_posts_per_day, items, rateRecords,
          cache, pc, req, last, accepted, denied, arg, out>>

-----------------------------------------------------------------------------
(* Bounds of the model *)

MaxItems == 3       \* sequential runs: creates start while fewer items exist
MaxWrites == 2      \* concurrent runs: creates start while fewer items exist
MaxTicks == 2       \* clock steps modelled after each midnight
MaxDay == 1         \* last calendar day modelled (the first is day 0)
ClockStep == 150    \* seconds per clock step
MaxCatLen == 3      \* longest category input of the normalisation study
MaxCoord == 2       \* largest region bound of the region study
MaxReadItems == 1   \* read runs: creates start while fewer items exist
MaxCalls == 3       \* cache study: calls made on the cache
MaxPage == 5        \* paging study: documents in the collection
ShortWait == 10     \* staleness runs: seconds of the short clock step

Procs == {"r1", "r2"}
Users == {"device_a", "device_b"}

-----------------------------------------------------------------------------
(* Program constants *)

cache_ttl == 300            \* settings.cache_ttl
DefaultMaxPosts == 10       \* os.getenv("MAX_POSTS_PER_DAY", "10")
DaySeconds == 86400         \* timedelta(days=1); expireAfterSeconds=86400
DefaultLimit == 50          \* Query(50, le=100)
MaxLimit == 100             \* Field(default=50, le=100)
DigestLen == 32             \* hashlib.md5(...).hexdigest()
OidLen == 24                \* ObjectId.is_valid: 24 hexadecimal digits
NearLimit == 50             \* collection.find(query).limit(50)

None == <<>>
Some(x) == <<x>>

-----------------------------------------------------------------------------
(* Strings *)

Upper == <<"A","B","C","D","E","F","G","H","I","J","K","L","M",
           "N","O","P","Q","R","S","T","U","V","W","X","Y","Z">>
Lower == <<"a","b","c","d","e","f","g","h","i","j","k","l","m",
           "n","o","p","q","r","s","t","u","v","w","x","y","z">>
Whitespace == {" ", "\t", "\n", "\r"}

LowerChar(c) ==
    IF \E i \in DOMAIN Upper : Upper[i] = c
    THEN Lower[CHOOSE i \in DOMAIN Upper : Upper[i] = c]
    ELSE c

\* str.lower()
str_lower(s) == [i \in 1..Len(s) |-> LowerChar(s[i])]

\* str.strip(): drops leading and trailing whitespace
str_strip(s) ==
    LET keep == {i \in 1..Len(s) : s[i] \notin Whitespace}
    IN  IF keep = {} THEN <<>>
        ELSE LET lo == CHOOSE i \in keep : \A j \in keep : i <= j
                 hi == CHOOSE i \in keep : \A j \in keep : j <= i
             IN  SubSeq(s, lo, hi)

\* str.startswith(prefix)
StartsWith(s, prefix) ==
    /\ Len(prefix) <= Len(s)
    /\ \A i \in 1..Len(prefix) : s[i] = prefix[i]

\* truthiness of an Optional[str] or of an Optional[list]
Truthy(v) == v # None /\ v[1] # <<>>

\* truthiness of an Optional[float]: None and 0.0 are falsy
TruthyNum(v) == v # None /\ v[1] # 0

Wallet  == <<"W","a","l","l","e","t">>
wallet  == <<"w","a","l","l","e","t">>

lost_items == <<"l","o","s","t","_","i","t","e","m","s">>
lost_item == <<"l","o","s","t","_","i","t","e","m">>
nearby_items == <<"n","e","a","r","b","y","_","i","t","e","m","s">>

\* two places an item is found at
Pier == [lng |-> -122, lat |-> 37]
Mill == [lng |-> -118, lat |-> 34]

-----------------------------------------------------------------------------
(* models/lost_item.py *)

\* mutant: lower() without strip()
validate_category_lower(v) ==
    IF Truthy(v) THEN Some(str_lower(v[1])) ELSE v

\* LostItemFilters.validate_category: v.lower().strip() if v else v
validate_category(v) ==
    IF Truthy(v) THEN Some(str_strip(str_lower(v[1]))) ELSE v

\* LostItemFilters(...): the validated filter object (model_dump() of it)
LostItemFilters(category, region_bounds, search_text, limit, skip) ==
    [category      |-> validate_category(category),
     region_bounds |-> region_bounds,
     search_text   |-> search_text,
     limit         |-> limit,
     skip          |-> skip]

BoundNames == {"min_lat", "max_lat", "min_lng", "max_lng"}

\* the four region parameters of a list request when none is sent
NoBounds == [k \in BoundNames |-> None]

\* any([min_lat, max_lat, min_lng, max_lng]), all([...])
any_of(b) == \E k \in BoundNames : TruthyNum(b[k])
all_of(b) == \A k \in BoundNames : TruthyNum(b[k])

\* the route's "Validate region bounds" block: 400, or the region_bounds
\* value handed to LostItemFilters
region_bounds(b) ==
    IF any_of(b)
    THEN IF ~all_of(b)
         THEN [status |-> 400, region_bounds |-> None]
         ELSE [status |-> 200,
               region_bounds |-> Some([k \in BoundNames |-> b[k][1]])]
    ELSE [status |-> 200, region_bounds |-> None]

\* the Field constraints of LostItemFilters: limit le=100, skip ge=0
FiltersValid(limit, skip) == limit <= MaxLimit /\ skip >= 0

\* LostItemCreate.model_dump() plus the store-assigned _id and the location
\* point: the stored document. The category is stored as it was sent.
Document(id, category, at) == [id |-> id, category |-> category, location |-> at]

-----------------------------------------------------------------------------
(* The store's find(), as get_lost_items drives it *)

\* the query dict get_lost_items builds: a key is present only if the filter
\* field is truthy
BuildQuery(filters) ==
    [category |-> IF Truthy(filters.category) THEN filters.category ELSE None,
     location |-> IF filters.region_bounds # None THEN filters.region_bounds
                  ELSE None]

\* {"$geoWithin": {"$box": [[min_lng, min_lat], [max_lng, max_lat]]}}
GeoWithin(at, bounds) ==
    /\ bounds.min_lng <= at.lng /\ at.lng <= bounds.max_lng
    /\ bounds.min_lat <= at.lat /\ at.lat <= bounds.max_lat

\* does a stored document satisfy the query
Matches(doc, query) ==
    /\ query.category = None \/ doc.category = query.category[1]
    /\ query.location = None \/ GeoWithin(doc.location, query.location[1])

RECURSIVE SelectSeq2(_, _)
\* the documents of a collection that satisfy the query, in insertion order
SelectSeq2(docs, query) ==
    IF docs = <<>> THEN <<>>
    ELSE LET rest == SelectSeq2(Tail(docs), query)
         IN  IF Matches(Head(docs), query) THEN <<Head(docs)>> \o rest ELSE rest

Reverse(s) == [i \in 1..Len(s) |-> s[Len(s) + 1 - i]]

Abs(n) == IF n < 0 THEN -n ELSE n
Min(a, b) == IF a <= b THEN a ELSE b

\* cursor.skip(n)
Skip(s, n) == IF n >= Len(s) THEN <<>> ELSE SubSeq(s, n + 1, Len(s))

\* cursor.limit(n): 0 is "no limit", a negative n limits to |n|
Limit(s, n) == IF n = 0 THEN s ELSE SubSeq(s, 1, Min(Len(s), Abs(n)))

\* collection.find(query).skip(skip).limit(limit).sort("created_at", -1):
\* the cursor sorts, then skips, then limits. Documents are created in
\* insertion order, so created_at descending is insertion order reversed.
Find(docs, filters) ==
    Limit(Skip(Reverse(SelectSeq2(docs, BuildQuery(filters))), filters.skip),
          filters.limit)

\* collection.find_one({"_id": ObjectId(item_id)}): the document in a list,
\* or the empty list
FindOne(docs, id) == SelectSeq(docs, LAMBDA d : d.id = id)

\* squared distance of two grid points
Dist2(a, b) == (a.lng - b.lng) * (a.lng - b.lng) + (a.lat - b.lat) * (a.lat - b.lat)

RECURSIVE InsertNear(_, _, _)
\* d put into a list sorted by distance from centre, after the documents
\* that are as near
InsertNear(d, sorted, centre) ==
    IF sorted = <<>> THEN <<d>>
    ELSE IF Dist2(d.location, centre) < Dist2(Head(sorted).location, centre)
    THEN <<d>> \o sorted
    ELSE <<Head(sorted)>> \o InsertNear(d, Tail(sorted), centre)

RECURSIVE SortNear(_, _)
SortNear(docs, centre) ==
    IF docs = <<>> THEN <<>>
    ELSE InsertNear(docs[Len(docs)], SortNear(SubSeq(docs, 1, Len(docs) - 1), centre),
                    centre)

\* collection.find({"location": {"$nearSphere": {"$geometry": centre,
\* "$maxDistance": radius}}}).limit(50): the documents within the radius,
\* nearest first
Near(docs, centre, radius) ==
    Limit(SortNear(SelectSeq(docs, LAMBDA d :
                       Dist2(d.location, centre) <= radius * radius), centre),
          NearLimit)

-----------------------------------------------------------------------------
(* services/cache_service.py *)

HexDigits == <<"0","1","2","3","4","5","6","7","8","9","a","b","c","d","e","f">>

\* str(ObjectId): the store-assigned id n as 24 hexadecimal digits
ObjectIdStr(n) == [i \in 1..(OidLen - 2) |-> "0"] \o
                  <<HexDigits[(n \div 16) + 1], HexDigits[(n % 16) + 1]>>

\* ObjectId.is_valid(item_id) of a str
ObjectId_is_valid(s) ==
    /\ Len(s) = OidLen
    /\ \A i \in 1..Len(s) : \E j \in DOMAIN HexDigits : s[i] = HexDigits[j]

\* ObjectId(item_id) of a valid str, as the store-assigned number
ObjectId(s) ==
    LET digit(c) == (CHOOSE j \in DOMAIN HexDigits : HexDigits[j] = c) - 1
    IN  digit(s[OidLen - 1]) * 16 + digit(s[OidLen])

\* the characters the modelled item ids use, for the digest's encoding
IdAlphabet == <<"0","1","2","3","4","5","6","7","8","9","a","b","c","d","e","z">>

\* the characters the modelled requests use, for the digest's encoding
Alphabet == <<"w","a","l","e","t","W"," ","k","y","s","E","L","T">>

CharIndex(c) == CHOOSE i \in DOMAIN Alphabet : Alphabet[i] = c

Hex1(n) == <<HexDigits[n + 1]>>
Hex2(n) == <<HexDigits[(n \div 16) + 1], HexDigits[(n % 16) + 1]>>

RECURSIVE Zeros(_)
Zeros(n) == IF n <= 0 THEN <<>> ELSE <<"0">> \o Zeros(n - 1)

RECURSIVE HexChars(_)
HexChars(s) == IF s = <<>> THEN <<>> ELSE Hex1(CharIndex(Head(s))) \o HexChars(Tail(s))

\* an Optional[str] of at most w characters in w + 2 digits
HexOptStr(v, w) ==
    IF v = None THEN Zeros(w + 2)
    ELSE <<"1">> \o Hex1(Len(v[1])) \o HexChars(v[1]) \o Zeros(w - Len(v[1]))

\* an int of magnitude below 256 in 3 digits
HexInt(n) == (IF n < 0 THEN <<"1">> ELSE <<"0">>) \o Hex2(Abs(n))

\* a coordinate in -128..127 in 2 digits
HexCoord(n) == Hex2(n + 128)

\* an Optional[dict] of region bounds in 9 digits
HexBounds(v) ==
    IF v = None THEN Zeros(9)
    ELSE <<"1">> \o HexCoord(v[1].max_lat) \o HexCoord(v[1].max_lng)
               \o HexCoord(v[1].min_lat) \o HexCoord(v[1].min_lng)

\* an item id of at most 24 characters in 26 digits
HexId(v) ==
    Hex2(Len(v))
    \o [i \in 1..Len(v) |->
          HexDigits[CHOOSE j \in DOMAIN IdAlphabet : IdAlphabet[j] = v[i]]]
    \o Zeros(OidLen - Len(v))

\* json.dumps(kwargs, sort_keys=True): the values in the order of the sorted
\* keys: id; lat, lng, radius; category, limit, region_bounds, search_text,
\* skip
JsonDumps(kwargs) ==
    IF "id" \in DOMAIN kwargs THEN <<kwargs.id>>
    ELSE IF "radius" \in DOMAIN kwargs
    THEN <<kwargs.lat, kwargs.lng, kwargs.radius>>
    ELSE <<kwargs.category, kwargs.limit, kwargs.region_bounds,
           kwargs.search_text, kwargs.skip>>

\* hashlib.md5(key_data).hexdigest(): 32 hexadecimal digits. MD5 is taken to
\* be collision free; the digest is an injective encoding of the key data.
Md5Hex(prefix, json) ==
    LET tag  == IF prefix = lost_items THEN <<"1">>
                ELSE IF prefix = lost_item THEN <<"3">>
                ELSE IF prefix = nearby_items THEN <<"4">>
                ELSE <<"2">>
        data == IF Len(json) = 1 THEN HexId(json[1])
                ELSE IF Len(json) = 3
                THEN HexCoord(json[1]) \o HexCoord(json[2]) \o HexCoord(json[3])
                ELSE HexOptStr(json[1], 7) \o HexInt(json[2])
                     \o HexBounds(json[3])
                     \o HexOptStr(json[4], 4) \o HexInt(json[5])
        body == tag \o data
    IN  body \o Zeros(DigestLen - Len(body))

\* CacheService._generate_key
generate_key(prefix, kwargs) == Md5Hex(prefix, JsonDumps(kwargs))

\* CacheService.get: TTLCache.get(key), None when absent or expired
cache_get(c, prefix, kwargs) ==
    LET key == generate_key(prefix, kwargs)
    IN  IF key \in DOMAIN c THEN Some(c[key].value) ELSE None

\* CacheService.set: TTLCache[key] = value, expiring cache_ttl later
cache_set(c, prefix, value, asOf, kwargs, t) ==
    LET key == generate_key(prefix, kwargs)
        new == [value |-> value, expires |-> t + cache_ttl, asOf |-> asOf]
    IN  [k \in DOMAIN c \cup {key} |-> IF k = key THEN new ELSE c[k]]

\* CacheService.invalidate_pattern: deletes the keys that start with prefix
invalidate_pattern(c, prefix) ==
    LET keys_to_remove == {key \in DOMAIN c : StartsWith(key, prefix)}
    IN  [k \in DOMAIN c \ keys_to_remove |-> c[k]]

\* TTLCache expiry: an entry is gone once the timer reaches its expiry time
Expire(c, t) == [k \in {k \in DOMAIN c : t < c[k].expires} |-> c[k]]

-----------------------------------------------------------------------------
(* services/rate_limit_service.py *)

\* today = datetime.now().replace(hour=0, minute=0, second=0, microsecond=0)
Today(t) == t - (t % DaySeconds)
Day(t) == t \div DaySeconds

\* mutant: a rolling 24-hour window in place of the calendar day
CountLast24h(records, u, t) ==
    Cardinality({i \in DOMAIN records :
        /\ records[i].user_id = u
        /\ records[i].created_at > t - DaySeconds
        /\ records[i].created_at <= t})

\* count_documents({"user_id": u, "created_at": {"$gte": today, "$lt": tomorrow}})
CountToday(records, u, t) ==
    Cardinality({i \in DOMAIN records :
        /\ records[i].user_id = u
        /\ records[i].created_at >= Today(t)
        /\ records[i].created_at < Today(t) + DaySeconds})

\* mutant: a user at the maximum is still admitted
CanPostAtMax(post_count, max) == post_count <= max

\* return post_count < self.max_posts_per_day
CanPost(post_count, max) == post_count < max

\* mutant: the except branch denies
check_rate_limit_closed(records, u, t, up, max) ==
    IF up THEN CanPost(CountToday(records, u, t), max) ELSE FALSE

\* check_rate_limit: the count and the decision when the store answers, and
\* True from the except branch when it does not
check_rate_limit(records, u, t, up, max) ==
    IF up THEN CanPost(CountToday(records, u, t), max) ELSE TRUE

\* record_post: insert_one({"user_id": u, "created_at": datetime.now()}); an
\* exception is logged and swallowed
record_post(records, u, t, up) ==
    IF up THEN Append(records, [user_id |-> u, created_at |-> t]) ELSE records

\* await get_database(): connect_to_mongo() when not connected, which sets
\* _is_connected on a successful ping and clears it on failure
Connect(conn, up) == IF conn THEN TRUE ELSE up

\* "async with DatabaseManager() as database": the class the rate limiter
\* imports from database.mongodb. It is taken to hand out the database of
\* get_database(), connecting on entry, and to raise when that fails.
DatabaseManager(conn, up) == Connect(conn, up)

\* is_connected()
is_connected(conn) == conn

-----------------------------------------------------------------------------
(* Request slots *)

NoFilters == LostItemFilters(None, None, None, DefaultLimit, 0)

\* a handler's locals
ReqNone ==
    [kind |-> "none", user_id |-> "", category |-> <<>>, location |-> Pier,
     id |-> <<>>, radius |-> 0, filters |-> NoFilters, can_post |-> FALSE,
     post_count |-> 0, limit_error |-> FALSE, item_id |-> 0,
     found |-> <<>>, asOf |-> 0, steps |-> <<>>]

NoResponse ==
    [kind |-> "none", user_id |-> "", filters |-> NoFilters, status |-> 0,
     item_id |-> 0, body |-> <<>>, hit |-> FALSE]

Free(p) == pc[p] = "idle"
Quiet == \A p \in Procs : Free(p)

\* the create requests that may still persist an item
Pending == {p \in Procs : pc[p] \in {"RateCheck", "StorePersist"}}

\* fewer than n items exist or are about to
Room(n) == Len(items) + Cardinality(Pending) < n

\* the handler returns or raises: the response leaves, the slot is free
Respond(p, status, item_id, body, hit) ==
    /\ pc' = [pc EXCEPT ![p] = "idle"]
    /\ req' = [req EXCEPT ![p] = ReqNone]
    /\ last' = [kind |-> req[p].kind, user_id |-> req[p].user_id,
                filters |-> req[p].filters, status |-> status,
                item_id |-> item_id, body |-> body, hit |-> hit]

\* the handler goes on to its next step with some locals set
Goto(p, step, fields) ==
    /\ pc' = [pc EXCEPT ![p] = step]
    /\ req' = [req EXCEPT ![p] = [f \in DOMAIN req[p] |->
                 IF f \in DOMAIN fields THEN fields[f]
                 ELSE IF f = "steps" THEN Append(req[p].steps, pc[p])
                 ELSE req[p][f]]]
    /\ last' = last

NoFields == [f \in {} |-> 0]

-----------------------------------------------------------------------------
(* api/routes/lost_items.py: POST /  (create_lost_item) *)

\* a create request arrives: item validated, user identified
CreateRequest(p, u, c, at) ==
    /\ Free(p)
    /\ pc' = [pc EXCEPT ![p] = "RateCheck"]
    /\ req' = [req EXCEPT ![p] =
                 [ReqNone EXCEPT !.kind = "create", !.user_id = u, !.category = c,
                                 !.location = at]]
    /\ UNCHANGED <<connected, storeUp, now, max_posts_per_day, items,
                   rateRecords, cache, last, accepted, denied, arg, out>>

\* mutant: a rejected attempt is recorded as a post
RateCheckRecordsDenied(p) ==
    /\ pc[p] = "RateCheck"
    /\ LET u == req[p].user_id
           can_post == check_rate_limit(rateRecords, u, now, storeUp,
                                        max_posts_per_day)
       IN  IF can_post
           THEN /\ Goto(p, "StorePersist",
                        [can_post |-> TRUE, limit_error |-> ~storeUp,
                         post_count |-> IF storeUp
                                        THEN CountToday(rateRecords, u, now)
                                        ELSE -1])
                /\ denied' = denied
                /\ rateRecords' = rateRecords
           ELSE /\ Respond(p, 429, 0, <<>>, FALSE)
                /\ denied' = denied \cup {[user_id |-> u, day |-> Day(now)]}
                /\ rateRecords' = record_post(rateRecords, u, now, storeUp)
    /\ connected' = DatabaseManager(connected, storeUp)
    /\ UNCHANGED <<storeUp, now, max_posts_per_day, items, cache, accepted,
                   arg, out>>

\* can_post = await rate_limit_service.check_rate_limit(user_id);
\* if not can_post: raise HTTPException(429)
RateCheck(p) ==
    /\ pc[p] = "RateCheck"
    /\ LET u == req[p].user_id
           can_post == check_rate_limit(rateRecords, u, now, storeUp,
                                        max_posts_per_day)
       IN  IF can_post
           THEN /\ Goto(p, "StorePersist",
                        [can_post |-> TRUE, limit_error |-> ~storeUp,
                         post_count |-> IF storeUp
                                        THEN CountToday(rateRecords, u, now)
                                        ELSE -1])
                /\ denied' = denied
           ELSE /\ Respond(p, 429, 0, <<>>, FALSE)
                /\ denied' = denied \cup {[user_id |-> u, day |-> Day(now)]}
    /\ connected' = DatabaseManager(connected, storeUp)
    /\ UNCHANGED <<storeUp, now, max_posts_per_day, items, rateRecords,
                   cache, accepted, arg, out>>

\* mutant: the invalidation is left out of the write
StorePersistNoInvalidate(p) ==
    /\ pc[p] = "StorePersist"
    /\ IF connected /\ storeUp
       THEN /\ items' = Append(items, Document(Len(items) + 1, req[p].category,
                                                  req[p].location))
            /\ Goto(p, "RateRecord", [item_id |-> Len(items) + 1])
       ELSE /\ items' = items
            /\ Respond(p, 500, 0, <<>>, FALSE)
    /\ UNCHANGED <<connected, storeUp, now, max_posts_per_day, rateRecords,
                   cache, accepted, denied, arg, out>>

\* mutant: a failed insert is logged and the write goes on
StorePersistSwallows(p) ==
    /\ pc[p] = "StorePersist"
    /\ IF is_connected(connected) /\ storeUp
       THEN /\ items' = Append(items, Document(Len(items) + 1, req[p].category,
                                                  req[p].location))
            /\ Goto(p, "CacheInvalidate", [item_id |-> Len(items) + 1])
       ELSE /\ items' = items
            /\ Goto(p, "CacheInvalidate", NoFields)
    /\ UNCHANGED <<connected, storeUp, now, max_posts_per_day, rateRecords,
                   cache, accepted, denied, arg, out>>

\* lost_item_service.create_lost_item up to the insert: is_connected(), then
\* insert_one(document) on the collection of get_database(), which the
\* service calls as a plain function handing out the connected database;
\* any exception reaches the route as a 500
StorePersist(p) ==
    /\ pc[p] = "StorePersist"
    /\ IF is_connected(connected) /\ storeUp
       THEN /\ items' = Append(items, Document(Len(items) + 1, req[p].category,
                                                  req[p].location))
            /\ Goto(p, "CacheInvalidate", [item_id |-> Len(items) + 1])
       ELSE /\ items' = items
            /\ Respond(p, 500, 0, <<>>, FALSE)
    /\ UNCHANGED <<connected, storeUp, now, max_posts_per_day, rateRecords,
                   cache, accepted, denied, arg, out>>

\* cache_service.invalidate_pattern("lost_items"), once the insert returned
CacheInvalidate(p) ==
    /\ pc[p] = "CacheInvalidate"
    /\ cache' = invalidate_pattern(cache, lost_items)
    /\ Goto(p, "RateRecord", NoFields)
    /\ UNCHANGED <<connected, storeUp, now, max_posts_per_day, items,
                   rateRecords, accepted, denied, arg, out>>

\* mutant: record_post lets its exception reach the route
RateRecordRaises(p) ==
    /\ pc[p] = "RateRecord"
    /\ rateRecords' = record_post(rateRecords, req[p].user_id, now, storeUp)
    /\ connected' = DatabaseManager(connected, storeUp)
    /\ IF storeUp
       THEN /\ accepted' = Append(accepted, [user_id |-> req[p].user_id,
                                             day |-> Day(now),
                                             item_id |-> req[p].item_id,
                                             post_count |-> req[p].post_count])
            /\ Respond(p, 201, req[p].item_id, <<>>, FALSE)
       ELSE /\ accepted' = accepted
            /\ Respond(p, 500, 0, <<>>, FALSE)
    /\ UNCHANGED <<storeUp, now, max_posts_per_day, items, cache, denied,
                   arg, out>>

\* mutant: the record is inserted only while the user is under the quota
RateRecordUnderQuota(p) ==
    /\ pc[p] = "RateRecord"
    /\ rateRecords' =
         IF CanPost(CountToday(rateRecords, req[p].user_id, now), max_posts_per_day)
         THEN record_post(rateRecords, req[p].user_id, now, storeUp)
         ELSE rateRecords
    /\ connected' = DatabaseManager(connected, storeUp)
    /\ accepted' = Append(accepted, [user_id |-> req[p].user_id,
                                     day |-> Day(now),
                                     item_id |-> req[p].item_id,
                                     post_count |-> req[p].post_count])
    /\ Respond(p, 201, req[p].item_id, <<>>, FALSE)
    /\ UNCHANGED <<storeUp, now, max_posts_per_day, items, cache, denied,
                   arg, out>>

\* await rate_limit_service.record_post(user_id); return {"item_id": item_id}
RateRecord(p) ==
    /\ pc[p] = "RateRecord"
    /\ rateRecords' = record_post(rateRecords, req[p].user_id, now, storeUp)
    /\ connected' = DatabaseManager(connected, storeUp)
    /\ accepted' = Append(accepted, [user_id |-> req[p].user_id,
                                     day |-> Day(now),
                                     item_id |-> req[p].item_id,
                                     post_count |-> req[p].post_count])
    /\ Respond(p, 201, req[p].item_id, <<>>, FALSE)
    /\ UNCHANGED <<storeUp, now, max_posts_per_day, items, cache, denied,
                   arg, out>>

-----------------------------------------------------------------------------
(* api/routes/lost_items.py: GET /  (get_lost_items) *)

\* a list request arrives; the route builds LostItemFilters
ListRequest(p, category, bounds, limit, skip) ==
    /\ Free(p)
    /\ FiltersValid(limit, skip)
    /\ LET region == region_bounds(bounds)
       IN  IF region.status = 400
           THEN /\ last' = [NoResponse EXCEPT !.kind = "list", !.status = 400]
                /\ UNCHANGED <<pc, req>>
           ELSE /\ pc' = [pc EXCEPT ![p] = "CacheCheck"]
                /\ req' = [req EXCEPT ![p] =
                             [ReqNone EXCEPT !.kind = "list",
                                !.filters = LostItemFilters(category,
                                              region.region_bounds, None,
                                              limit, skip)]]
                /\ last' = last
    /\ UNCHANGED <<connected, storeUp, now, max_posts_per_day, items,
                   rateRecords, cache, accepted, denied, arg, out>>

\* get_lost_items up to the store query: is_connected(), then the cache;
\* "if cached_result:" returns the cached list
CacheCheck(p) ==
    /\ pc[p] = "CacheCheck"
    /\ LET cached_result == cache_get(cache, lost_items, req[p].filters)
       IN  IF ~is_connected(connected)
           THEN Respond(p, 500, 0, <<>>, FALSE)
           ELSE IF Truthy(cached_result)
           THEN Respond(p, 200, 0, cached_result[1], TRUE)
           ELSE Goto(p, "StoreQuery", NoFields)
    /\ UNCHANGED <<connected, storeUp, now, max_posts_per_day, items,
                   rateRecords, cache, accepted, denied, arg, out>>

\* the cursor is read from the store; an exception reaches the route as a 500
StoreQuery(p) ==
    /\ pc[p] = "StoreQuery"
    /\ IF storeUp
       THEN Goto(p, "CachePopulate",
                 [found |-> Find(items, req[p].filters), asOf |-> Len(items)])
       ELSE Respond(p, 500, 0, <<>>, FALSE)
    /\ UNCHANGED <<connected, storeUp, now, max_posts_per_day, items,
                   rateRecords, cache, accepted, denied, arg, out>>

\* cache_service.set("lost_items", [...], **cache_key_params); return items
CachePopulate(p) ==
    /\ pc[p] = "CachePopulate"
    /\ cache' = cache_set(cache, lost_items, req[p].found, req[p].asOf,
                          req[p].filters, now)
    /\ Respond(p, 200, 0, req[p].found, FALSE)
    /\ UNCHANGED <<connected, storeUp, now, max_posts_per_day, items,
                   rateRecords, accepted, denied, arg, out>>

-----------------------------------------------------------------------------
(* The same steps when the cache call raises. The calls stand inside the
   service's "try: ... except Exception: raise", and the routes answer an
   exception with 500. *)

\* cache_service.get raises in get_lost_items
CacheCheckFault(p) ==
    /\ pc[p] = "CacheCheck"
    /\ is_connected(connected)
    /\ Respond(p, 500, 0, <<>>, FALSE)
    /\ UNCHANGED <<connected, storeUp, now, max_posts_per_day, items,
                   rateRecords, cache, accepted, denied, arg, out>>

\* cache_service.set raises in get_lost_items, after the store was read
CachePopulateFault(p) ==
    /\ pc[p] = "CachePopulate"
    /\ Respond(p, 500, 0, <<>>, FALSE)
    /\ UNCHANGED <<connected, storeUp, now, max_posts_per_day, items,
                   rateRecords, cache, accepted, denied, arg, out>>

\* cache_service.invalidate_pattern raises in create_lost_item, after the
\* insert: the route never reaches record_post
CacheInvalidateFault(p) ==
    /\ pc[p] = "CacheInvalidate"
    /\ Respond(p, 500, 0, <<>>, FALSE)
    /\ UNCHANGED <<connected, storeUp, now, max_posts_per_day, items,
                   rateRecords, cache, accepted, denied, arg, out>>

-----------------------------------------------------------------------------
(* api/routes/lost_items.py: GET /{item_id}  (get_lost_item) *)

\* a request for one item arrives
GetRequest(p, item_id) ==
    /\ Free(p)
    /\ pc' = [pc EXCEPT ![p] = "ItemCacheCheck"]
    /\ req' = [req EXCEPT ![p] = [ReqNone EXCEPT !.kind = "get", !.id = item_id]]
    /\ UNCHANGED <<connected, storeUp, now, max_posts_per_day, items,
                   rateRecords, cache, last, accepted, denied, arg, out>>

\* get_lost_item_by_id up to find_one: is_connected(), the cache, then
\* "if not ObjectId.is_valid(item_id): return None", which the route
\* answers with 404
ItemCacheCheck(p) ==
    /\ pc[p] = "ItemCacheCheck"
    /\ LET cached_result == cache_get(cache, lost_item, [id |-> req[p].id])
       IN  IF ~is_connected(connected)
           THEN Respond(p, 500, 0, <<>>, FALSE)
           ELSE IF Truthy(cached_result)
           THEN Respond(p, 200, 0, cached_result[1], TRUE)
           ELSE IF ~ObjectId_is_valid(req[p].id)
           THEN Respond(p, 404, 0, <<>>, FALSE)
           ELSE Goto(p, "ItemFindOne", NoFields)
    /\ UNCHANGED <<connected, storeUp, now, max_posts_per_day, items,
                   rateRecords, cache, accepted, denied, arg, out>>

\* doc = await collection.find_one(...); None is answered with 404, a
\* document is cached under its id and returned; an exception reaches the
\* route as a 500
ItemFindOne(p) ==
    /\ pc[p] = "ItemFindOne"
    /\ LET doc == FindOne(items, ObjectId(req[p].id))
       IN  IF ~storeUp
           THEN /\ Respond(p, 500, 0, <<>>, FALSE)
                /\ cache' = cache
           ELSE IF doc = <<>>
           THEN /\ Respond(p, 404, 0, <<>>, FALSE)
                /\ cache' = cache
           ELSE /\ Respond(p, 200, 0, doc, FALSE)
                /\ cache' = cache_set(cache, lost_item, doc, Len(items),
                                      [id |-> req[p].id], now)
    /\ UNCHANGED <<connected, storeUp, now, max_posts_per_day, items,
                   rateRecords, accepted, denied, arg, out>>

-----------------------------------------------------------------------------
(* api/routes/lost_items.py: GET /nearby/  (get_nearby_items) *)

\* the Query constraints of latitude, longitude and radius (radius ge=0.1,
\* on the grid: at least 1)
NearValid(centre, radius) ==
    /\ -90 <= centre.lat /\ centre.lat <= 90
    /\ -180 <= centre.lng /\ centre.lng <= 180
    /\ 1 <= radius /\ radius <= 100

\* cache_key_params = {"lng": longitude, "lat": latitude, "radius": radius_km}
NearParams(r) == [lng |-> r.location.lng, lat |-> r.location.lat,
                  radius |-> r.radius]

\* a nearby request arrives
NearRequest(p, centre, radius) ==
    /\ Free(p)
    /\ NearValid(centre, radius)
    /\ pc' = [pc EXCEPT ![p] = "NearCacheCheck"]
    /\ req' = [req EXCEPT ![p] = [ReqNone EXCEPT !.kind = "near",
                                     !.location = centre, !.radius = radius]]
    /\ UNCHANGED <<connected, storeUp, now, max_posts_per_day, items,
                   rateRecords, cache, last, accepted, denied, arg, out>>

\* get_items_near_location up to the store query: is_connected(), then the
\* cache under the prefix "nearby_items"
NearCacheCheck(p) ==
    /\ pc[p] = "NearCacheCheck"
    /\ LET cached_result == cache_get(cache, nearby_items, NearParams(req[p]))
       IN  IF ~is_connected(connected)
           THEN Respond(p, 500, 0, <<>>, FALSE)
           ELSE IF Truthy(cached_result)
           THEN Respond(p, 200, 0, cached_result[1], TRUE)
           ELSE Goto(p, "NearStoreQuery", NoFields)
    /\ UNCHANGED <<connected, storeUp, now, max_posts_per_day, items,
                   rateRecords, cache, accepted, denied, arg, out>>

\* mutant: a failed store query is taken for an empty result
NearStoreQuerySwallows(p) ==
    /\ pc[p] = "NearStoreQuery"
    /\ Goto(p, "NearCachePopulate",
            [found |-> IF storeUp
                       THEN Near(items, req[p].location, req[p].radius)
                       ELSE <<>>,
             asOf |-> Len(items)])
    /\ UNCHANGED <<connected, storeUp, now, max_posts_per_day, items,
                   rateRecords, cache, accepted, denied, arg, out>>

\* the $nearSphere cursor is read; an exception reaches the route as a 500
NearStoreQuery(p) ==
    /\ pc[p] = "NearStoreQuery"
    /\ IF storeUp
       THEN Goto(p, "NearCachePopulate",
                 [found |-> Near(items, req[p].location, req[p].radius),
                  asOf |-> Len(items)])
       ELSE Respond(p, 500, 0, <<>>, FALSE)
    /\ UNCHANGED <<connected, storeUp, now, max_posts_per_day, items,
                   rateRecords, cache, accepted, denied, arg, out>>

\* cache_service.set("nearby_items", [...], **cache_key_params); return items
NearCachePopulate(p) ==
    /\ pc[p] = "NearCachePopulate"
    /\ cache' = cache_set(cache, nearby_items, req[p].found, req[p].asOf,
                          NearParams(req[p]), now)
    /\ Respond(p, 200, 0, req[p].found, FALSE)
    /\ UNCHANGED <<connected, storeUp, now, max_posts_per_day, items,
                   rateRecords, accepted, denied, arg, out>>

-----------------------------------------------------------------------------
(* The environment *)

\* main.py health_check: await get_database()
HealthCheck ==
    /\ connected' = Connect(connected, storeUp)
    /\ UNCHANGED <<storeUp, now, max_posts_per_day, items, rateRecords,
                   cache, pc, req, last, accepted, denied, arg, out>>

StoreFail ==
    /\ storeUp
    /\ storeUp' = FALSE
    /\ UNCHANGED <<connected, now, max_posts_per_day, items, rateRecords,
                   cache, pc, req, last, accepted, denied, arg, out>>

StoreRecover ==
    /\ ~storeUp
    /\ storeUp' = TRUE
    /\ UNCHANGED <<connected, now, max_posts_per_day, items, rateRecords,
                   cache, pc, req, last, accepted, denied, arg, out>>

\* time passes within the day; entries past their TTL leave the cache
Tick ==
    /\ (now % DaySeconds) + ClockStep <= MaxTicks * ClockStep
    /\ now' = now + ClockStep
    /\ cache' = Expire(cache, now')
    /\ UNCHANGED <<connected, storeUp, max_posts_per_day, items, rateRecords,
                   pc, req, last, accepted, denied, arg, out>>

\* d seconds pass; entries past their TTL leave the cache
Elapse(d) ==
    /\ now + d <= cache_ttl + 2 * ShortWait
    /\ now' = now + d
    /\ cache' = Expire(cache, now')
    /\ UNCHANGED <<connected, storeUp, max_posts_per_day, items, rateRecords,
                   pc, req, last, accepted, denied, arg, out>>

\* the clock reaches the next midnight
Midnight ==
    /\ Day(now) < MaxDay
    /\ now' = Today(now) + DaySeconds
    /\ cache' = Expire(cache, now')
    /\ UNCHANGED <<connected, storeUp, max_posts_per_day, items, rateRecords,
                   pc, req, last, accepted, denied, arg, out>>

\* the store's TTL index on created_at (expireAfterSeconds=86400)
ExpireRateRecords ==
    /\ \E i \in DOMAIN rateRecords : rateRecords[i].created_at + DaySeconds <= now
    /\ rateRecords' = SelectSeq(rateRecords,
                                LAMBDA r : r.created_at + DaySeconds > now)
    /\ UNCHANGED <<connected, storeUp, now, max_posts_per_day, items, cache,
                   pc, req, last, accepted, denied, arg, out>>

-----------------------------------------------------------------------------
(* Specifications *)

\* the state after import and construction, for the given settings of
\* MAX_POSTS_PER_DAY (DefaultMaxPosts when the variable is unset)
InitWith(maxes) ==
    /\ connected = FALSE
    /\ storeUp = TRUE
    /\ now = 0
    /\ max_posts_per_day \in maxes
    /\ items = <<>>
    /\ rateRecords = <<>>
    /\ cache = [k \in {} |-> 0]
    /\ pc = [p \in Procs |-> "idle"]
    /\ req = [p \in Procs |-> ReqNone]
    /\ last = NoResponse
    /\ accepted = <<>>
    /\ denied = {}

Step(p) ==
    \/ RateCheck(p)
    \/ StorePersist(p)
    \/ CacheInvalidate(p)
    \/ RateRecord(p)
    \/ CacheCheck(p)
    \/ StoreQuery(p)
    \/ CachePopulate(p)

\* MAX_POSTS_PER_DAY=1, so that the quota is met within MaxWrites creates
Init == InitWith({1}) /\ arg = <<>> /\ out = <<>>

\* concurrent requests, a store that may fail, within one TTL period: creates
\* on both slots, list reads on the second (a read runs beside a create)
Next ==
    \/ Room(MaxWrites) /\ \E p \in Procs, u \in Users : CreateRequest(p, u, wallet, Pier)
    \/ ListRequest("r2", None, NoBounds, DefaultLimit, 0)
    \/ \E p \in Procs : Step(p)
    \/ HealthCheck
    \/ StoreFail
    \/ StoreRecover

Spec == Init /\ [][Next]_vars

\* MAX_POSTS_PER_DAY unset. One request at a time, a store that answers:
\* reads and writes
InitSeq == InitWith({DefaultMaxPosts}) /\ arg = <<>> /\ out = <<>>

NextSeq ==
    \/ Quiet /\ Room(MaxItems)
             /\ \E c \in {Wallet, wallet} : CreateRequest("r1", "device_a", c, Pier)
    \/ Quiet /\ \E c \in {None, Some(wallet), Some(Wallet)} :
                    ListRequest("r1", c, NoBounds, DefaultLimit, 0)
    \/ \E p \in Procs : Step(p)
    \/ HealthCheck
    \/ Tick

SpecSeq == InitSeq /\ [][NextSeq]_vars

\* MAX_POSTS_PER_DAY set to 1 or 2. One create request at a time, a store
\* that answers, days passing
InitRate == InitWith({1, 2}) /\ arg = <<>> /\ out = <<>>

NextRate ==
    \/ Quiet /\ Room(MaxItems) /\ \E u \in Users : CreateRequest("r1", u, wallet, Pier)
    \/ \E p \in Procs : \/ RateCheck(p)
                        \/ StorePersist(p)
                        \/ CacheInvalidate(p)
                        \/ RateRecord(p)
    \/ Tick
    \/ Midnight
    \/ ExpireRateRecords

SpecRate == InitRate /\ [][NextRate]_vars

\* the ids a request for one item asks for: the ids the store assigns, one
\* the store never assigned, and two that are not ObjectIds
ItemIds == {ObjectIdStr(n) : n \in 1..(MaxReadItems + 1)}
           \cup {<<"z">>, [i \in 1..(OidLen - 1) |-> "0"]}

\* the write steps of a create request
WriteStep(p) ==
    \/ RateCheck(p)
    \/ StorePersist(p)
    \/ CacheInvalidate(p)
    \/ RateRecord(p)

\* one request at a time, a store that may fail: creates at the pier and
\* the three reads
NextReads ==
    \/ Quiet /\ Room(MaxReadItems)
             /\ CreateRequest("r1", "device_a", wallet, Pier)
    \/ Quiet /\ ListRequest("r1", None, NoBounds, DefaultLimit, 0)
    \/ Quiet /\ \E id \in ItemIds : GetRequest("r1", id)
    \/ Quiet /\ NearRequest("r1", Pier, 1)
    \/ WriteStep("r1")
    \/ CacheCheck("r1") \/ StoreQuery("r1") \/ CachePopulate("r1")
    \/ ItemCacheCheck("r1") \/ ItemFindOne("r1")
    \/ NearCacheCheck("r1") \/ NearStoreQuery("r1") \/ NearCachePopulate("r1")
    \/ StoreFail
    \/ StoreRecover

SpecReads == InitSeq /\ [][NextReads]_vars

\* one request at a time, a store that answers, a cache whose calls may
\* raise: creates and list reads
NextFault ==
    \/ Quiet /\ Room(MaxWrites) /\ CreateRequest("r1", "device_a", wallet, Pier)
    \/ Quiet /\ ListRequest("r1", None, NoBounds, DefaultLimit, 0)
    \/ WriteStep("r1")
    \/ CacheCheck("r1") \/ StoreQuery("r1") \/ CachePopulate("r1")
    \/ CacheCheckFault("r1")
    \/ CachePopulateFault("r1")
    \/ CacheInvalidateFault("r1")
    \/ HealthCheck
    \/ Tick

SpecFault == InitSeq /\ [][NextFault]_vars

\* one request at a time, a store that answers: creates at two places and
\* nearby reads around the pier
NextNear ==
    \/ Quiet /\ Room(MaxWrites)
             /\ \E at \in {Pier, Mill} : CreateRequest("r1", "device_a", wallet, at)
    \/ Quiet /\ \E radius \in {1, 5} : NearRequest("r1", Pier, radius)
    \/ WriteStep("r1")
    \/ NearCacheCheck("r1") \/ NearStoreQuery("r1") \/ NearCachePopulate("r1")
    \/ Tick

SpecNear == InitSeq /\ [][NextNear]_vars

\* the create requests of user u that are being handled
InFlight(u) == {p \in Procs : ~Free(p) /\ req[p].user_id = u}

\* concurrent create requests, a store that answers, days passing: the
\* first device sends requests while a slot is free, the second only when
\* none of its requests is being handled
NextRace ==
    \/ Room(MaxItems) /\ \E p \in Procs : CreateRequest(p, "device_a", wallet, Pier)
    \/ Room(MaxItems) /\ InFlight("device_b") = {}
                      /\ CreateRequest("r2", "device_b", wallet, Pier)
    \/ \E p \in Procs : WriteStep(p)
    \/ Midnight
    \/ ExpireRateRecords

SpecRace == InitRate /\ [][NextRace]_vars

\* creates beside list reads, a store that answers, the clock moving by two
\* short steps at most and by steps one short step less than the TTL. A list
\* handler runs from its entry to the cache lookup without suspending, so no
\* time passes between the two.
NextStale ==
    \/ Room(MaxWrites) /\ CreateRequest("r1", "device_a", wallet, Pier)
    \/ ListRequest("r2", None, NoBounds, DefaultLimit, 0)
    \/ WriteStep("r1")
    \/ CacheCheck("r2") \/ StoreQuery("r2") \/ CachePopulate("r2")
    \/ pc["r2"] # "CacheCheck" /\ now < 2 * ShortWait /\ Elapse(ShortWait)
    \/ pc["r2"] # "CacheCheck" /\ Elapse(cache_ttl - ShortWait)

SpecStale == InitSeq /\ [][NextStale]_vars

-----------------------------------------------------------------------------
(* The category filter of a list request, from the query string to the store
   query and the cache key *)

NormChars == {"E", "e", "L", "l", " "}

\* the strings of at most n characters of NormChars
Strings(n) == UNION {[1..k -> NormChars] : k \in 0..n}

\* filters = LostItemFilters(category=category, ...)
NormValidate ==
    /\ out = <<>>
    /\ out' = <<LostItemFilters(arg, None, None, DefaultLimit, 0)>>
    /\ UNCHANGED <<connected, storeUp, now, max_posts_per_day, items,
                   rateRecords, cache, pc, req, last, accepted, denied, arg>>

\* cache_key_params = filters.model_dump(); the key of cache_service.get
NormKey ==
    /\ Len(out) = 1
    /\ out' = Append(out, generate_key(lost_items, out[1]))
    /\ UNCHANGED <<connected, storeUp, now, max_posts_per_day, items,
                   rateRecords, cache, pc, req, last, accepted, denied, arg>>

\* the query dict built on a cache miss
NormQuery ==
    /\ Len(out) = 2
    /\ out' = Append(out, BuildQuery(out[1]))
    /\ UNCHANGED <<connected, storeUp, now, max_posts_per_day, items,
                   rateRecords, cache, pc, req, last, accepted, denied, arg>>

\* the dumped filters validated once more
NormAgain ==
    /\ Len(out) = 3
    /\ out' = Append(out, LostItemFilters(out[1].category, out[1].region_bounds,
                                          out[1].search_text, out[1].limit,
                                          out[1].skip))
    /\ UNCHANGED <<connected, storeUp, now, max_posts_per_day, items,
                   rateRecords, cache, pc, req, last, accepted, denied, arg>>

InitNorm ==
    /\ InitWith({DefaultMaxPosts})
    /\ arg \in {None} \cup {Some(s) : s \in Strings(MaxCatLen)}
    /\ out = <<>>

NextNorm ==
    \/ NormValidate
    \/ NormKey
    \/ NormQuery
    \/ NormAgain

SpecNorm == InitNorm /\ [][NextNorm]_vars

-----------------------------------------------------------------------------
(* The region parameters of a list request, from the query string to the
   documents the store returns *)

\* a parameter is left out, or sent with a value in 0..MaxCoord
BoundVals == {None} \cup {Some(v) : v \in 0..MaxCoord}

\* the collection the region study reads
RegionDocs == <<Document(1, wallet, [lng |-> 0, lat |-> 0]),
                Document(2, wallet, [lng |-> 1, lat |-> 2])>>

\* the "Validate region bounds" block of the route
RegionValidate ==
    /\ out = <<>>
    /\ out' = <<region_bounds(arg)>>
    /\ UNCHANGED <<connected, storeUp, now, max_posts_per_day, items,
                   rateRecords, cache, pc, req, last, accepted, denied, arg>>

\* filters = LostItemFilters(..., region_bounds=region_bounds, ...)
RegionFilters ==
    /\ Len(out) = 1
    /\ out[1].status = 200
    /\ out' = Append(out, LostItemFilters(None, out[1].region_bounds, None,
                                           DefaultLimit, 0))
    /\ UNCHANGED <<connected, storeUp, now, max_posts_per_day, items,
                   rateRecords, cache, pc, req, last, accepted, denied, arg>>

\* the store read of get_lost_items on a cache miss
RegionFind ==
    /\ Len(out) = 2
    /\ out' = Append(out, Find(RegionDocs, out[2]))
    /\ UNCHANGED <<connected, storeUp, now, max_posts_per_day, items,
                   rateRecords, cache, pc, req, last, accepted, denied, arg>>

InitRegion ==
    /\ InitWith({DefaultMaxPosts})
    /\ arg \in [BoundNames -> BoundVals]
    /\ out = <<>>

NextRegion ==
    \/ RegionValidate
    \/ RegionFilters
    \/ RegionFind

SpecRegion == InitRegion /\ [][NextRegion]_vars

-----------------------------------------------------------------------------
(* The cache key, from the keyword arguments as Python holds them to the
   digest. A dict is the sequence of its <<key, value>> pairs in insertion
   order; a value is [val |-> v] or, for a nested dict, [dict |-> pairs]. *)

key_names ==
    [category |-> <<"c","a","t","e","g","o","r","y">>,
     region_bounds |-> <<"r","e","g","i","o","n","_","b","o","u","n","d","s">>,
     search_text |-> <<"s","e","a","r","c","h","_","t","e","x","t">>,
     limit |-> <<"l","i","m","i","t">>,
     skip |-> <<"s","k","i","p">>,
     min_lat |-> <<"m","i","n","_","l","a","t">>,
     max_lat |-> <<"m","a","x","_","l","a","t">>,
     min_lng |-> <<"m","i","n","_","l","n","g">>,
     max_lng |-> <<"m","a","x","_","l","n","g">>,
     id |-> <<"i","d">>,
     lng |-> <<"l","n","g">>,
     lat |-> <<"l","a","t">>,
     radius |-> <<"r","a","d","i","u","s">>]

\* the code point order of the characters of the keys: "_" before the letters
CharOrd(c) == IF c = "_" THEN 0 ELSE CHOOSE i \in DOMAIN Lower : Lower[i] = c

RECURSIVE StrLess(_, _)
\* a < b for two str
StrLess(a, b) ==
    IF b = <<>> THEN FALSE
    ELSE IF a = <<>> THEN TRUE
    ELSE IF CharOrd(Head(a)) # CharOrd(Head(b))
    THEN CharOrd(Head(a)) < CharOrd(Head(b))
    ELSE StrLess(Tail(a), Tail(b))

RECURSIVE InsertPair(_, _)
InsertPair(pair, sorted) ==
    IF sorted = <<>> THEN <<pair>>
    ELSE IF StrLess(pair[1], Head(sorted)[1]) THEN <<pair>> \o sorted
    ELSE <<Head(sorted)>> \o InsertPair(pair, Tail(sorted))

RECURSIVE SortKeys(_)
\* sorted(dct.items()), as the encoder does under sort_keys=True
SortKeys(pairs) ==
    IF pairs = <<>> THEN <<>>
    ELSE InsertPair(Head(pairs), SortKeys(Tail(pairs)))

\* mutant: json.dumps(kwargs) without sort_keys
json_dumps_unsorted(d) ==
    [i \in 1..Len(d) |->
       IF "dict" \in DOMAIN d[i][2] THEN <<d[i][1], [dict |-> d[i][2].dict]>>
       ELSE d[i]]

\* json.dumps(kwargs, sort_keys=True): the pairs in the order of their keys,
\* those of a nested dict too
json_dumps(d) ==
    LET top == SortKeys(d)
    IN  [i \in 1..Len(top) |->
           IF "dict" \in DOMAIN top[i][2]
           THEN <<top[i][1], [dict |-> SortKeys(top[i][2].dict)]>>
           ELSE top[i]]

\* the values of a dump in the order they are written; a nested dict of
\* region bounds as an Optional record
DumpValues(dump) ==
    [i \in 1..Len(dump) |->
       IF "dict" \in DOMAIN dump[i][2]
       THEN LET n == dump[i][2].dict
            IN  Some([max_lat |-> n[1][2].val, max_lng |-> n[2][2].val,
                      min_lat |-> n[3][2].val, min_lng |-> n[4][2].val])
       ELSE dump[i][2].val]

\* the orders a dict of the given pairs can be built in
Orders(pairs) ==
    {[i \in 1..Len(pairs) |-> pairs[f[i]]] :
       f \in {g \in [1..Len(pairs) -> 1..Len(pairs)] :
                \A i, j \in 1..Len(pairs) : i # j => g[i] # g[j]}}

\* the region bounds of the key study, in the order the route writes them
KeyBounds == <<<<key_names.min_lat, [val |-> 1]>>, <<key_names.max_lat, [val |-> 2]>>,
               <<key_names.min_lng, [val |-> 0]>>, <<key_names.max_lng, [val |-> 3]>>>>

\* filters.model_dump(), in the order the fields are declared
FilterPairs(category, bounds) ==
    <<<<key_names.category, [val |-> category]>>, <<key_names.region_bounds, bounds>>,
      <<key_names.search_text, [val |-> None]>>, <<key_names.limit, [val |-> DefaultLimit]>>,
      <<key_names.skip, [val |-> 0]>>>>

\* {"lng": longitude, "lat": latitude, "radius": radius_km}
NearPairs == <<<<key_names.lng, [val |-> Pier.lng]>>, <<key_names.lat, [val |-> Pier.lat]>>,
               <<key_names.radius, [val |-> 1]>>>>

\* the calls of the key study: a prefix, the keyword arguments as first
\* built, and the same arguments in some order
KeyCalls ==
    {[prefix |-> lost_item, built |-> b, kwargs |-> b] :
        b \in {<<<<key_names.id, [val |-> ObjectIdStr(1)]>>>>}}
    \cup {[prefix |-> nearby_items, built |-> NearPairs, kwargs |-> o] :
            o \in Orders(NearPairs)}
    \cup UNION {{[prefix |-> lost_items, built |-> FilterPairs(c, [val |-> None]),
                  kwargs |-> o] : o \in Orders(FilterPairs(c, [val |-> None]))}
                : c \in {None, Some(wallet)}}
    \cup UNION {{[prefix |-> lost_items,
                  built |-> FilterPairs(None, [dict |-> KeyBounds]),
                  kwargs |-> o] : o \in Orders(FilterPairs(None, [dict |-> n]))}
                : n \in Orders(KeyBounds)}

\* json.dumps(kwargs, sort_keys=True)
KeyDump ==
    /\ out = <<>>
    /\ out' = <<json_dumps(arg.kwargs)>>
    /\ UNCHANGED <<connected, storeUp, now, max_posts_per_day, items,
                   rateRecords, cache, pc, req, last, accepted, denied, arg>>

\* hashlib.md5(key_data.encode()).hexdigest()
KeyDigest ==
    /\ Len(out) = 1
    /\ out' = Append(out, Md5Hex(arg.prefix, DumpValues(out[1])))
    /\ UNCHANGED <<connected, storeUp, now, max_posts_per_day, items,
                   rateRecords, cache, pc, req, last, accepted, denied, arg>>

\* a second call of _generate_key with the same arguments
KeyAgain ==
    /\ Len(out) = 2
    /\ out' = Append(out, Md5Hex(arg.prefix, DumpValues(json_dumps(arg.kwargs))))
    /\ UNCHANGED <<connected, storeUp, now, max_posts_per_day, items,
                   rateRecords, cache, pc, req, last, accepted, denied, arg>>

InitKey ==
    /\ InitWith({DefaultMaxPosts})
    /\ arg \in KeyCalls
    /\ out = <<>>

NextKey ==
    \/ KeyDump
    \/ KeyDigest
    \/ KeyAgain

SpecKey == InitKey /\ [][NextKey]_vars

-----------------------------------------------------------------------------
(* The cache service on its own: set, invalidate_pattern and get under one
   prefix. arg is the prefix, out the calls made so far. *)

\* the parameter sets the callers of a prefix use
ParamsOf(prefix) ==
    IF prefix = lost_item
    THEN {[id |-> ObjectIdStr(n)] : n \in 1..2}
    ELSE IF prefix = nearby_items
    THEN {[lng |-> c.lng, lat |-> c.lat, radius |-> 1] : c \in {Pier, Mill}}
    ELSE {LostItemFilters(c, None, None, DefaultLimit, 0) : c \in {None, Some(wallet)}}

\* cache_service.set(prefix, value, **kwargs)
CacheSet(kwargs) ==
    /\ Len(out) < MaxCalls
    /\ cache' = cache_set(cache, arg, <<Document(1, wallet, Pier)>>, 1, kwargs, now)
    /\ out' = Append(out, [call |-> "set", kwargs |-> kwargs, result |-> None])
    /\ UNCHANGED <<connected, storeUp, now, max_posts_per_day, items,
                   rateRecords, pc, req, last, accepted, denied, arg>>

\* cache_service.invalidate_pattern(prefix)
CacheInvalidatePattern ==
    /\ Len(out) < MaxCalls
    /\ cache' = invalidate_pattern(cache, arg)
    /\ out' = Append(out, [call |-> "invalidate", kwargs |-> <<>>, result |-> None])
    /\ UNCHANGED <<connected, storeUp, now, max_posts_per_day, items,
                   rateRecords, pc, req, last, accepted, denied, arg>>

\* cache_service.get(prefix, **kwargs)
CacheGet(kwargs) ==
    /\ Len(out) < MaxCalls
    /\ out' = Append(out, [call |-> "get", kwargs |-> kwargs,
                            result |-> cache_get(cache, arg, kwargs)])
    /\ UNCHANGED <<connected, storeUp, now, max_posts_per_day, items,
                   rateRecords, cache, pc, req, last, accepted, denied, arg>>

InitCache ==
    /\ InitWith({DefaultMaxPosts})
    /\ arg \in {lost_items, lost_item, nearby_items}
    /\ out = <<>>

NextCache ==
    \/ \E kwargs \in ParamsOf(arg) : CacheSet(kwargs)
    \/ CacheInvalidatePattern
    \/ \E kwargs \in ParamsOf(arg) : CacheGet(kwargs)

SpecCache == InitCache /\ [][NextCache]_vars

-----------------------------------------------------------------------------
(* The paging parameters of a list request, from the query string to the
   documents the store returns *)

\* the limit and skip values sent
PageLimits == (-2..3) \cup {DefaultLimit - 1, DefaultLimit, DefaultLimit + 1}
              \cup {MaxLimit - 1, MaxLimit, MaxLimit + 1, MaxLimit + 2}
PageSkips == -1..3

\* the collection the paging study reads
PageDocs == [i \in 1..MaxPage |-> Document(i, wallet, Pier)]

\* limit: int = Query(50, le=100), skip: int = Query(0, ge=0), and the same
\* constraints on LostItemFilters: the request is refused with 422 or goes on
PageValidate ==
    /\ out = <<>>
    /\ out' = <<IF FiltersValid(arg.limit, arg.skip)
                THEN [status |-> 200,
                      filters |-> LostItemFilters(None, None, None,
                                                  arg.limit, arg.skip)]
                ELSE [status |-> 422, filters |-> NoFilters]>>
    /\ UNCHANGED <<connected, storeUp, now, max_posts_per_day, items,
                   rateRecords, cache, pc, req, last, accepted, denied, arg>>

\* the store read of get_lost_items on a cache miss
PageFind ==
    /\ Len(out) = 1
    /\ out[1].status = 200
    /\ out' = Append(out, Find(PageDocs, out[1].filters))
    /\ UNCHANGED <<connected, storeUp, now, max_posts_per_day, items,
                   rateRecords, cache, pc, req, last, accepted, denied, arg>>

InitPage ==
    /\ InitWith({DefaultMaxPosts})
    /\ arg \in [limit : PageLimits, skip : PageSkips]
    /\ out = <<>>

NextPage ==
    \/ PageValidate
    \/ PageFind

SpecPage == InitPage /\ [][NextPage]_vars

-----------------------------------------------------------------------------
(* Claims *)

Ids(docs) == {docs[i].id : i \in DOMAIN docs}

\* the step in which slot p answers a list request from the cache
ServedFromCache(p) ==
    /\ pc[p] = "CacheCheck"
    /\ pc'[p] = "idle"
    /\ last'.status = 200
    /\ last'.hit

\* C1: Invalidation. With one request at a time, a list read answered from
\* the cache after a create completed returns the newest item whenever the
\* read's filter matches it: the cached result never predates the write.
C1_Invalidation ==
    [][\A p \in Procs :
         (/\ ServedFromCache(p)
          /\ items # <<>>
          /\ Matches(items[Len(items)], BuildQuery(req[p].filters)))
         => Len(items) \in Ids(last'.body)]_vars

\* C2: Cache correctness. With one request at a time, a list read that finds
\* an unexpired entry for its parameters, set with no write since, is
\* answered with that entry and issues no store query; a read that finds no
\* unexpired entry goes to the store.
C2_CacheCorrectness ==
    [][\A p \in Procs :
         pc[p] = "CacheCheck" /\ pc'[p] # "CacheCheck" =>
           LET key == generate_key(lost_items, req[p].filters)
           IN  /\ (key \in DOMAIN cache /\ cache[key].asOf = Len(items))
                    => (/\ pc'[p] = "idle"
                        /\ last'.status = 200
                        /\ last'.body = cache[key].value)
               /\ (key \notin DOMAIN cache /\ connected)
                    => pc'[p] = "StoreQuery"]_vars


\* the 201 responses sent to user u on day d
Accepted(u, d) ==
    Cardinality({i \in DOMAIN accepted :
                   accepted[i].user_id = u /\ accepted[i].day = d})

\* C3: Rate limiting. With one create request at a time and a store that
\* answers, a rate check of a user who got n creates accepted on the current
\* calendar day admits the request when n < max-per-day and rejects it with
\* 429 when n >= max-per-day; creates accepted on earlier days do not count.
C3_DailyQuota ==
    [][\A p \in Procs :
         pc[p] = "RateCheck" /\ pc'[p] # "RateCheck" =>
           LET n == Accepted(req[p].user_id, Day(now))
           IN  /\ n < max_posts_per_day => pc'[p] = "StorePersist"
               /\ n >= max_posts_per_day =>
                    (/\ pc'[p] = "idle"
                     /\ last'.status = 429
                     /\ n = max_posts_per_day)]_vars

\* C3 witness: a user reached the day's maximum on day 0, was rejected on
\* day 0, and had a create accepted on day 1.
C3_Witness ==
    \E u \in Users :
        /\ [user_id |-> u, day |-> 0] \in denied
        /\ Accepted(u, 0) = max_posts_per_day
        /\ Accepted(u, 1) >= 1
        /\ max_posts_per_day > 1
        /\ Quiet

LowerCased(s) == \A i \in DOMAIN s : \A j \in DOMAIN Upper : s[i] # Upper[j]
Trimmed(s) == s = <<>> \/ (s[1] \notin Whitespace /\ s[Len(s)] \notin Whitespace)

\* C9: Category normalization at write time. Every persisted item carries a
\* lower-cased, trimmed category.
C9_NormalizedAtWrite ==
    \A i \in DOMAIN items :
        LowerCased(items[i].category) /\ Trimmed(items[i].category)


Admitted == {"StorePersist", "CacheInvalidate", "RateRecord"}

\* slot p takes a step
Steps(p) == pc'[p] # pc[p]

\* C4: Order within a write. The item is persisted by a request that has only
\* passed its rate check; the cache is invalidated by a request whose item is
\* in the store; the rate record is inserted by a request that has persisted
\* and then invalidated, in that order.
C4_WriteOrder ==
    [][\A p \in Procs :
         /\ (pc[p] = "StorePersist" /\ Steps(p))
              => (/\ req[p].steps = <<"RateCheck">>
                  /\ req[p].item_id \notin Ids(items))
         /\ (pc[p] = "CacheInvalidate" /\ Steps(p))
              => (/\ req[p].steps = <<"RateCheck", "StorePersist">>
                  /\ req[p].item_id \in Ids(items))
         /\ (pc[p] = "RateRecord" /\ Steps(p))
              => (/\ req[p].steps = <<"RateCheck", "StorePersist", "CacheInvalidate">>
                  /\ req[p].item_id \in Ids(items))
         /\ (rateRecords' # rateRecords /\ Steps(p))
              => pc[p] = "RateRecord"]_vars

\* C4 witness: an admitted write ran to its end: item stored, record stored,
\* 201 sent.
C4_Witness ==
    /\ last.kind = "create"
    /\ last.status = 201
    /\ last.item_id \in Ids(items)
    /\ \E i \in DOMAIN rateRecords : rateRecords[i].user_id = last.user_id

\* C5: Fail-open rate check. A rate check made while the store does not
\* answer admits the request, whoever the user and whatever the records: the
\* request goes on to the persist step and no 429 is sent.
C5_FailOpen ==
    [][\A p \in Procs :
         (pc[p] = "RateCheck" /\ Steps(p) /\ ~storeUp)
           => (/\ pc'[p] = "StorePersist"
               /\ req'[p].can_post
               /\ denied' = denied)]_vars

\* C5 witness: a request admitted by a failed count although its user has
\* the day's maximum of records.
C5_Witness ==
    \E p \in Procs :
        /\ pc[p] = "StorePersist"
        /\ req[p].limit_error
        /\ CountToday(rateRecords, req[p].user_id, now) >= max_posts_per_day

\* C6: A failed recordPost does not undo the write. When the record step runs
\* while the store does not answer, the request is answered 201 with the id
\* of its item, the item stays in the store, the cache is left as the
\* invalidation left it, and no record is added.
C6_RecordFailureKeepsWrite ==
    [][\A p \in Procs :
         (pc[p] = "RateRecord" /\ Steps(p) /\ ~storeUp)
           => (/\ last'.status = 201
               /\ last'.item_id = req[p].item_id
               /\ req[p].item_id \in Ids(items')
               /\ items' = items
               /\ cache' = cache
               /\ rateRecords' = rateRecords)]_vars

\* C6 witness: a create was answered 201 and its rate record is missing.
C6_Witness ==
    /\ last.kind = "create"
    /\ last.status = 201
    /\ last.item_id \in Ids(items)
    /\ Len(rateRecords) < Len(accepted)
    /\ cache # <<>>

\* C7: The deny path changes nothing. A rate check that does not admit ends
\* the request with 429 and leaves the items, the cache and the rate records
\* as they were.
C7_DenyChangesNothing ==
    [][\A p \in Procs :
         (pc[p] = "RateCheck" /\ Steps(p) /\ pc'[p] # "StorePersist")
           => (/\ pc'[p] = "idle"
               /\ last'.status = 429
               /\ items' = items
               /\ cache' = cache
               /\ rateRecords' = rateRecords)]_vars

\* C7 witness: a create was rejected while items, cache entries and rate
\* records existed.
C7_Witness ==
    /\ last.kind = "create"
    /\ last.status = 429
    /\ items # <<>>
    /\ cache # <<>>
    /\ rateRecords # <<>>

\* C8: The check-then-act race. Nothing between the rate check and the record
\* step looks at the count again: an admitted request is never answered 429,
\* and its record step, with the store answering, adds one record to the
\* user's day whatever the count has become.
C8_AdmittedIsRecorded ==
    [][\A p \in Procs :
         (pc[p] \in Admitted /\ Steps(p))
           => (/\ pc'[p] = "idle" => last'.status # 429
               /\ (pc[p] = "RateRecord" /\ storeUp)
                    => (/\ last'.status = 201
                        /\ CountToday(rateRecords', req[p].user_id, now)
                             = CountToday(rateRecords, req[p].user_id, now) + 1))]_vars

\* C8 witness: two creates of one user were accepted on the current day, the
\* rate checks of both had counted max-1 records, and the user's count for
\* the day is max+1.
C8_Witness ==
    \E i, j \in DOMAIN accepted :
        /\ i < j
        /\ accepted[i].user_id = accepted[j].user_id
        /\ accepted[i].day = Day(now)
        /\ accepted[j].day = Day(now)
        /\ accepted[i].post_count = max_posts_per_day - 1
        /\ accepted[j].post_count = max_posts_per_day - 1
        /\ CountToday(rateRecords, accepted[i].user_id, now) = max_posts_per_day + 1


UpperOf(c) ==
    IF \E i \in DOMAIN Lower : Lower[i] = c
    THEN Upper[CHOOSE i \in DOMAIN Lower : Lower[i] = c]
    ELSE c

\* c is base with letters put in either case and whitespace put around it
VariantOf(c, base) ==
    \E l \in 0..Len(c) :
        /\ l + Len(base) <= Len(c)
        /\ \A i \in 1..l : c[i] \in Whitespace
        /\ \A i \in 1..Len(base) : c[l + i] \in {base[i], UpperOf(base[i])}
        /\ \A i \in (l + Len(base) + 1)..Len(c) : c[i] \in Whitespace

\* the categories as the store holds them after normalisation: not empty,
\* lower-cased, trimmed
Canonical == {b \in Strings(MaxCatLen) : b # <<>> /\ LowerCased(b) /\ Trimmed(b)}

\* C10: Read-side category normalisation. Normalising a normalised filter
\* changes nothing, and a filter whose category is a case and
\* surrounding-whitespace variant of a stored category b gets the cache key
\* and the store query of the filter b, a query that matches an item stored
\* with category b.
C10_ReadNormalisation ==
    Len(out) = 4 =>
      /\ out[4] = out[1]
      /\ \A b \in Canonical :
           (arg # None /\ VariantOf(arg[1], b)) =>
             /\ out[1].category = Some(b)
             /\ out[2] = generate_key(lost_items, [out[1] EXCEPT !.category = Some(b)])
             /\ out[3] = [category |-> Some(b), location |-> None]
             /\ Matches(Document(1, b, Pier), out[3])

\* C10 witness: a filter category in upper case with whitespace on both
\* sides went through validation, key derivation and query building.
C10_Witness ==
    /\ Len(out) = 4
    /\ arg = Some(<<" ", "E", " ">>)
    /\ out[1].category = Some(<<"e">>)


\* the region parameters that were sent
Supplied(b) == {k \in BoundNames : b[k] # None}

\* the documents of docs inside the box the four parameters give, newest first
InBox(docs, b) ==
    Reverse(SelectSeq(docs, LAMBDA d :
        /\ b.min_lng[1] <= d.location.lng /\ d.location.lng <= b.max_lng[1]
        /\ b.min_lat[1] <= d.location.lat /\ d.location.lat <= b.max_lat[1]))

\* C11: Region filter validation. A list request that sends some but not all
\* of min_lat, max_lat, min_lng, max_lng is rejected with 400, whatever the
\* values, 0 included; a request that sends none or all four is accepted;
\* with none the read is unfiltered and with all four it returns the
\* documents inside the box.
C11_RegionValidation ==
    Len(out) >= 1 =>
      LET n == Cardinality(Supplied(arg))
      IN  /\ (0 < n /\ n < 4) => out[1].status = 400
          /\ n \in {0, 4} => out[1].status = 200
          /\ (n = 0 /\ Len(out) = 3) => out[3] = Reverse(RegionDocs)
          /\ (n = 4 /\ Len(out) = 3) => out[3] = InBox(RegionDocs, arg)

\* C12: InvalidId is not NotFound. A request for one item whose id is a
\* well-formed ObjectId without a document is answered 404; a request whose
\* id is not a well-formed ObjectId fails at once with another outcome than
\* that 404.
C12_InvalidIdDistinct ==
    [][\A p \in Procs :
         /\ (pc[p] = "ItemFindOne" /\ Steps(p) /\ storeUp
                /\ FindOne(items, ObjectId(req[p].id)) = <<>>)
              => last'.status = 404
         /\ (pc[p] = "ItemCacheCheck" /\ Steps(p) /\ connected
                /\ ~ObjectId_is_valid(req[p].id))
              => (pc'[p] = "idle" /\ last'.status \notin {200, 404})]_vars

\* C13: CacheDegraded is swallowed. With the store answering and the
\* process connected, no request is answered with an error whatever the
\* cache calls do: a list read that went to the store returns what the store
\* holds, and a create whose item was inserted returns 201 with its id.
C13_CacheDegradedSwallowed ==
    [][\A p \in Procs :
         (Steps(p) /\ pc'[p] = "idle" /\ storeUp /\ connected)
           => (/\ last'.status # 500
               /\ (req[p].kind = "list" /\ ~last'.hit)
                    => last'.body = Find(items, req[p].filters)
               /\ req[p].kind = "create"
                    => (/\ last'.status = 201
                        /\ last'.item_id = req[p].item_id
                        /\ last'.item_id \in Ids(items')))]_vars

\* the cache key of the read slot p is handling
Fingerprint(p) ==
    IF req[p].kind = "get" THEN generate_key(lost_item, [id |-> req[p].id])
    ELSE IF req[p].kind = "near"
    THEN generate_key(nearby_items, NearParams(req[p]))
    ELSE generate_key(lost_items, req[p].filters)

\* slot p is at the store query of a read
AtStoreRead(p) == pc[p] \in {"StoreQuery", "NearStoreQuery", "ItemFindOne"}

\* slot p holds the result of a store read made after a cache miss
HoldsStoreResult(p) ==
    \/ /\ pc[p] = "CachePopulate"
       /\ req[p].steps = <<"CacheCheck", "StoreQuery">>
    \/ /\ pc[p] = "NearCachePopulate"
       /\ req[p].steps = <<"NearCacheCheck", "NearStoreQuery">>
    \/ /\ pc[p] = "ItemFindOne"
       /\ req[p].steps = <<"ItemCacheCheck">>
       /\ storeUp
       /\ FindOne(items, ObjectId(req[p].id)) # <<>>

\* C14: Reads fail closed. A list, by-id or nearby read whose store query
\* fails is answered 500 and leaves the cache as it was; the cache changes
\* only when a read that missed the cache and then read the store stores its
\* result, and then only under that read's own key.
C14_ReadsFailClosed ==
    [][/\ \A p \in Procs :
            (AtStoreRead(p) /\ Steps(p) /\ ~storeUp)
              => (pc'[p] = "idle" /\ last'.status = 500 /\ cache' = cache)
       /\ cache' # cache =>
            \E p \in Procs :
                /\ Steps(p)
                /\ HoldsStoreResult(p)
                /\ last'.status = 200
                /\ DOMAIN cache' = DOMAIN cache \cup {Fingerprint(p)}
                /\ \A k \in DOMAIN cache : k # Fingerprint(p) => cache'[k] = cache[k]
                /\ cache'[Fingerprint(p)].value = last'.body]_vars

\* C14 witness: a by-id read of a stored item failed at the store while the
\* process was connected and the cache held a list result; the cache has no
\* entry for the id, nor for the nearby query.
C14_Witness ==
    /\ connected
    /\ ~storeUp
    /\ last.kind = "get"
    /\ last.status = 500
    /\ items # <<>>
    /\ generate_key(lost_items, NoFilters) \in DOMAIN cache
    /\ generate_key(lost_item, [id |-> ObjectIdStr(1)]) \notin DOMAIN cache
    /\ generate_key(nearby_items, [lng |-> Pier.lng, lat |-> Pier.lat, radius |-> 1])
         \notin DOMAIN cache

\* C15: The cache key does not depend on the order of the parameters. For
\* each operation kind, the serialised parameters and the key of a call are
\* those of the same parameters in the order they were first built,
\* whatever the order they are enumerated in, nested region bounds
\* included; a second call with the same input gives the same key; and the
\* keys of the kinds differ.
C15_FingerprintOrderFree ==
    /\ Len(out) >= 1 => out[1] = json_dumps(arg.built)
    /\ Len(out) >= 2 =>
         /\ out[2] = Md5Hex(arg.prefix, DumpValues(json_dumps(arg.built)))
         /\ Len(out[2]) = DigestLen
         /\ \A c \in KeyCalls :
              c.prefix # arg.prefix
                => out[2] # Md5Hex(c.prefix, DumpValues(json_dumps(c.built)))
    /\ Len(out) = 3 => out[3] = out[2]

\* C15 witness: a list filter with region bounds, enumerated skip first and
\* with the bounds in another order than the route writes them, was
\* serialised and digested twice.
C15_Witness ==
    /\ Len(out) = 3
    /\ arg.prefix = lost_items
    /\ arg.kwargs[1][1] = key_names.skip
    /\ \E i \in 1..5 : /\ arg.kwargs[i][1] = key_names.region_bounds
                        /\ "dict" \in DOMAIN arg.kwargs[i][2]
                        /\ arg.kwargs[i][2].dict[1][1] = key_names.max_lng
    /\ out[1][1][1] = key_names.category
    /\ out[1][3][2].dict[1][1] = key_names.max_lat

\* C16: invalidate(tag) removes every entry of the group. After
\* invalidate_pattern(prefix), get(prefix, params) finds nothing for every
\* parameter set, whatever was set under the prefix before.
C16_InvalidateRemovesGroup ==
    [][(Len(out') > Len(out) /\ out'[Len(out')].call = "invalidate")
         => \A kwargs \in ParamsOf(arg) : cache_get(cache', arg, kwargs) = None]_vars

\* the stored items within the radius of the nearby read slot p is handling
Covered(p) ==
    {items[i].id : i \in {j \in DOMAIN items :
        Dist2(items[j].location, req[p].location) <= req[p].radius * req[p].radius}}

\* C17: Nearby reads see completed writes. With one request at a time, a
\* nearby read answered 200, from the store or from the cache, returns every
\* stored item whose point lies within its radius, the one created last
\* included.
C17_NearbySeesWrite ==
    [][\A p \in Procs :
         (/\ pc[p] \in {"NearCacheCheck", "NearCachePopulate"}
          /\ pc'[p] = "idle"
          /\ last'.status = 200)
         => Covered(p) \subseteq Ids(last'.body)]_vars

\* C18: The default daily maximum is 2. With MAX_POSTS_PER_DAY unset and the
\* store answering, a rate check admits the request exactly when the user
\* has fewer than 2 rate records on the current day, so the third create of
\* a user on one day is rejected with 429.
C18_DefaultQuotaIsTwo ==
    [][\A p \in Procs :
         (pc[p] = "RateCheck" /\ Steps(p) /\ storeUp)
           => LET n == CountToday(rateRecords, req[p].user_id, now)
              IN  /\ n < 2 => pc'[p] = "StorePersist"
                  /\ n >= 2 => (pc'[p] = "idle" /\ last'.status = 429)]_vars

\* C19: Paging bounds. A list request is accepted only with a limit in
\* 1..100 and a skip of at least 0, and an accepted request is answered with
\* at most limit items, so with at most 100.
C19_PagingBounds ==
    /\ (Len(out) >= 1 /\ out[1].status = 200)
         => (/\ 1 <= arg.limit /\ arg.limit <= MaxLimit
             /\ arg.skip >= 0)
    /\ Len(out) = 2
         => (Len(out[2]) <= arg.limit /\ Len(out[2]) <= MaxLimit)

\* the items whose write has completed its cache invalidation
Invalidated ==
    {i \in Ids(items) :
        ~\E q \in Procs : pc[q] = "CacheInvalidate" /\ req[q].item_id = i}

\* C20: No stale entry survives a write, under any interleaving. A list
\* handler runs from its entry to the cache lookup without suspending, so a
\* read served from the cache started after every invalidation completed so
\* far. Such a read is never served an entry computed from a store query
\* that ran before the persist of a write whose invalidation has completed,
\* and a read that queried the store before that persist does not put its
\* result into the cache after the invalidation.
C20_NoStaleEntryAfterWrite ==
    [][\A p \in Procs :
         /\ ServedFromCache(p)
              => \A i \in Invalidated :
                   cache[generate_key(lost_items, req[p].filters)].asOf >= i
         /\ (pc[p] = "CachePopulate" /\ Steps(p))
              => \A i \in Invalidated : req[p].asOf >= i]_vars

\* slot p is at the cache lookup of a read
AtCacheCheck(p) == pc[p] \in {"CacheCheck", "NearCacheCheck", "ItemCacheCheck"}

\* C21: A cache hit short-circuits. A list, nearby or by-id read that finds
\* an unexpired entry under its key at its cache lookup ends there: it is
\* answered 200 with the entry's value and takes no store step, whether or
\* not the store answers.
C21_HitShortCircuits ==
    [][\A p \in Procs :
         (AtCacheCheck(p) /\ Steps(p) /\ Fingerprint(p) \in DOMAIN cache)
           => (/\ pc'[p] = "idle"
               /\ last'.status = 200
               /\ last'.hit
               /\ last'.body = cache[Fingerprint(p)].value)]_vars

\* C22: A read is a cache hit exactly when an unexpired entry exists under
\* its key, whatever the cached value. A list or nearby read on a connected
\* process is answered from the cache if and only if the cache holds an
\* entry under its key; in particular an entry holding the empty result of
\* a query made with no write since is served, with an empty body, and the
\* read takes no store step.
C22_HitIffLiveEntry ==
    [][\A p \in Procs :
         (pc[p] \in {"CacheCheck", "NearCacheCheck"} /\ Steps(p) /\ connected)
           => /\ (pc'[p] = "idle" /\ last'.hit) <=> Fingerprint(p) \in DOMAIN cache
              /\ (/\ Fingerprint(p) \in DOMAIN cache
                  /\ cache[Fingerprint(p)].value = <<>>
                  /\ cache[Fingerprint(p)].asOf = Len(items))
                   => (/\ pc'[p] = "idle"
                       /\ last'.status = 200
                       /\ last'.hit
                       /\ last'.body = <<>>)]_vars

\* C23: A failed persist ends the write. When the persist step of an
\* admitted create runs while the process is not connected or the store does
\* not answer, the request is answered 500, not 429, no item is stored, the
\* cache and the rate records are left as they were and nothing is counted
\* as accepted; there are never more rate records than stored items.
C23_FailedPersistEndsWrite ==
    [][/\ \A p \in Procs :
            (pc[p] = "StorePersist" /\ Steps(p) /\ ~(connected /\ storeUp))
              => (/\ pc'[p] = "idle"
                  /\ last'.kind = "create"
                  /\ last'.status = 500
                  /\ last'.status # 429
                  /\ items' = items
                  /\ cache' = cache
                  /\ rateRecords' = rateRecords
                  /\ accepted' = accepted
                  /\ denied' = denied)
       /\ Len(rateRecords') <= Len(items')]_vars

\* C23 witness: a create failed at its persist step after another create had
\* succeeded and a list result was cached; the failed request's user has no
\* rate record and every stored item has its record.
C23_Witness ==
    /\ last.kind = "create"
    /\ last.status = 500
    /\ items # <<>>
    /\ cache # <<>>
    /\ Len(rateRecords) = Len(items)
    /\ CountToday(rateRecords, last.user_id, now) = 0

\* the most requests of user u handled at one time under SpecRace
MaxInFlight(u) == IF u = "device_a" THEN Cardinality(Procs) ELSE 1

\* the rate records of user u created on day d
RecordsOn(u, d) ==
    Cardinality({i \in DOMAIN rateRecords :
                   rateRecords[i].user_id = u /\ Day(rateRecords[i].created_at) = d})

\* the requests of user u being handled whose item is in the store
PersistedInFlight(u) ==
    {p \in InFlight(u) : pc[p] \in {"CacheInvalidate", "RateRecord"}}

\* C24: Over-admission is bounded by contention. With a store that answers
\* and at most k create requests of a user handled at one time, the user's
\* rate records of any one calendar day number at most max-per-day + k - 1,
\* and so do the user's items of the current day (those of the creates
\* answered today and of the requests still being handled); with k = 1 the
\* maximum is never exceeded.
C24_OverAdmissionBounded ==
    \A u \in Users :
        /\ Cardinality(InFlight(u)) <= MaxInFlight(u)
        /\ \A d \in 0..MaxDay :
              RecordsOn(u, d) <= max_posts_per_day + MaxInFlight(u) - 1
        /\ Accepted(u, Day(now)) + Cardinality(PersistedInFlight(u))
              <= max_posts_per_day + MaxInFlight(u) - 1

\* C24 witness: on one day the first device, with two requests handled at
\* a time, got max-per-day + 1 records and was then rejected, and the second
\* device, with one request at a time, got max-per-day records.
C24_Witness ==
    /\ RecordsOn("device_a", Day(now)) = max_posts_per_day + 1
    /\ RecordsOn("device_b", Day(now)) = max_posts_per_day
    /\ [user_id |-> "device_a", day |-> Day(now)] \in denied
    /\ Quiet

\* the time the entry under key k was set
SetAt(k) == cache[k].expires - cache_ttl

\* C25: Staleness is bounded by one TTL. The invalidation of this instance
\* removes nothing, so it stands for an instance that never sees a write's
\* invalidation. A list read answered from the cache gets an entry that was
\* set at most one TTL before, and the answer contains the item of every
\* create that was completed more than one TTL before the read.
C25_StalenessWithinTtl ==
    [][\A p \in Procs :
         ServedFromCache(p) =>
           LET key == generate_key(lost_items, req[p].filters)
           IN  /\ now - SetAt(key) <= cache_ttl
               /\ \A i \in DOMAIN accepted :
                    now - rateRecords[i].created_at > cache_ttl
                      => accepted[i].item_id \in Ids(last'.body)]_vars

====
